---- MODULE Spec2Model ----
(***************************************************************************)
(* Discrete-time ALOHA simulator of MAC_simulator: the per-node physical   *)
(* state machine (node.py, class Node), the collision check                *)
(* (Node.has_collided), the ALOHA policy (class ALOHA) and the per-tick    *)
(* driver loop (scenarious_routing.py, Scenario.run).                      *)
(*                                                                         *)
(* Lengths (x_pos, y_pos, radius, transceive_range) are held in quarters   *)
(* of a distance unit, so that the scenario's radius 0.25 is the integer 1 *)
(* and a distance below one unit (travel time 0) can be represented.       *)
(***************************************************************************)
EXTENDS Integers, Sequences, FiniteSets, TLC

VARIABLES
    simulation_time,       \* the driver's tick counter
    turn,                  \* how many nodes of scenario.nodes have been stepped in this tick
    horizon,               \* the driver's fixed tick bound
    scenario,              \* the Scenario dataclass: nodes (list order), send_schedule, ...
    node,                  \* node id -> the Node dataclass (with its ALOHA protocol)
    active_transmissions,  \* the ledger: list of Transmission, append only
    received_log,          \* history: every call protocol.receive_packet(message), in order
    state_log,             \* history: node id -> its state after each of its steps
    routing_protocol,      \* node id -> the node's DSDVRoutingProtocol (node.routing_protocol)
    advertisements         \* routing messages handed to node.send, not yet returned by node.receive

vars == <<simulation_time, turn, horizon, scenario, node, active_transmissions,
          received_log, state_log, routing_protocol, advertisements>>

----------------------------------------------------------------------------
(* Program constants and model bounds *)

\* randint(1, 16): the largest backoff draw
BackoffMax == 16

\* self.ack_await_counter = 50
AckAwait == 50

\* tick bound of the two-party specification Spec
MaxTime == 9

\* tick bound of the end-to-end specification SpecE2E
MaxTimeE2E == 36

\* tick bound of the three-node specification SpecThree
MaxTimeThree == 4

\* tick bound of the long two-party run SpecLong
MaxTimeLong == 61

\* tick bound of the runs with moving nodes SpecMobile
MaxTimeMobile == 6

\* the number of local changes (increments of own sequence counters) in SpecDSDV
MaxSequence == 1

\* the largest number of routing messages under way at once in SpecDSDV
MaxInFlight == 2

\* tick bound of the single-frame run SpecQuiet
MaxTimeQuiet == 64

\* tick bound of the replayed runs SpecReplay
MaxTimeReplay == 10

\* the replayed runs (SpecReplay, SpecLong) start from the constructor draws
\* 1..MaxFirstDraw of randint(1, 16); every later draw ranges over 1..16
MaxFirstDraw == 2

BackoffDraws == 1..BackoffMax

----------------------------------------------------------------------------
(* NodeState, Message, Transmission *)

Idle == "Idle"
Sending == "Sending"
Receiving == "Receiving"
Waiting == "Waiting"

NodeState == {Idle, Sending, Receiving, Waiting}

HighLevelMessage(target, content, length) ==
    [target |-> target, content |-> content, length |-> length]

Message(target, source, sequence_number, content, length) ==
    [target |-> target, source |-> source, sequence_number |-> sequence_number,
     content |-> content, length |-> length]

\* Python's None where a Message is expected (send_packet's bare return)
NoMessage == Message(-1, -1, -1, "None", -1)

get_ack(m) == Message(m.source, m.target, m.sequence_number, "ack", 1)

Transmission(id, source, planned_transmit_time, actual_transmit_time, message) ==
    [id |-> id, source |-> source, planned_transmit_time |-> planned_transmit_time,
     actual_transmit_time |-> actual_transmit_time, message |-> message]

\* Python's None in Node.currently_receiving
NoTransmission == Transmission(-1, -1, -1, -1, NoMessage)

PlannedTransmission(transmit_time, message, source_node_id) ==
    [transmit_time |-> transmit_time, message |-> message,
     source_node_id |-> source_node_id]

----------------------------------------------------------------------------
(* class ALOHA *)

ALOHA(identifier, draw) ==
    [id |-> identifier, backoff |-> draw, ack_await_counter |-> 0,
     buffer |-> <<>>, sequence_number |-> 0]

\* get_next_sequence_number without the increment
get_next_sequence_number_stuck(p) == p

get_next_sequence_number(p) == [p EXCEPT !.sequence_number = @ + 1]

generate_packet(p, message) ==
    LET q == get_next_sequence_number(p)
    IN  [q EXCEPT !.buffer = Append(@, Message(message.target, p.id, q.sequence_number,
                                               message.content, message.length))]

\* line 92: the test that takes an incoming frame for the ack of the buffer head
accepts_ack(p, message) ==
    /\ p.buffer # <<>>
    /\ message.source = Head(p.buffer).target
    /\ message.content = "ack"

\* receive_packet leaving the acknowledged frame in the buffer
receive_packet_keeps(p, message) ==
    IF message.target # p.id THEN p
    ELSE IF accepts_ack(p, message)
         THEN [p EXCEPT !.ack_await_counter = 0]
         ELSE [p EXCEPT !.buffer = <<get_ack(message)>> \o @, !.backoff = 0]

\* receive_packet with the ack queued behind the waiting frames
receive_packet_appends(p, message) ==
    IF message.target # p.id THEN p
    ELSE IF accepts_ack(p, message)
         THEN [p EXCEPT !.ack_await_counter = 0, !.buffer = Tail(@)]
         ELSE [p EXCEPT !.buffer = Append(@, get_ack(message)), !.backoff = 0]

receive_packet(p, message) ==
    IF message.target # p.id THEN p
    ELSE IF accepts_ack(p, message)
         THEN [p EXCEPT !.ack_await_counter = 0, !.buffer = Tail(@)]
         ELSE [p EXCEPT !.buffer = <<get_ack(message)>> \o @, !.backoff = 0]

Max(a, b) == IF a >= b THEN a ELSE b

\* send_packet that does not arm the ack-wait budget
send_packet_unarmed(p, draw) ==
    IF p.ack_await_counter # 0
    THEN [protocol |-> [p EXCEPT !.ack_await_counter = @ - 1], packet |-> NoMessage]
    ELSE IF p.buffer = <<>>
    THEN [protocol |-> p, packet |-> NoMessage]
    ELSE LET b == Max(0, p.backoff - 1)
         IN  IF b = 0
             THEN [protocol |-> [p EXCEPT !.backoff = draw], packet |-> Head(p.buffer)]
             ELSE [protocol |-> [p EXCEPT !.backoff = b], packet |-> NoMessage]

\* send_packet with the value randint(1, 16) returns if it is called:
\* the protocol after the call and the returned packet (NoMessage for None)
send_packet(p, draw) ==
    IF p.ack_await_counter # 0
    THEN [protocol |-> [p EXCEPT !.ack_await_counter = @ - 1], packet |-> NoMessage]
    ELSE IF p.buffer = <<>>
    THEN [protocol |-> p, packet |-> NoMessage]
    ELSE LET b == Max(0, p.backoff - 1)
         IN  IF b = 0
             THEN [protocol |-> [p EXCEPT !.backoff = draw, !.ack_await_counter = AckAwait],
                   packet |-> Head(p.buffer)]
             ELSE [protocol |-> [p EXCEPT !.backoff = b], packet |-> NoMessage]

\* whether this call of send_packet reaches randint (line 113)
send_packet_draws(p) ==
    /\ p.ack_await_counter = 0
    /\ p.buffer # <<>>
    /\ Max(0, p.backoff - 1) = 0

----------------------------------------------------------------------------
(* class Node: geometry *)

Abs(a) == IF a >= 0 THEN a ELSE -a

squared_distance(n1, n2) ==
    (n1.x_pos - n2.x_pos) * (n1.x_pos - n2.x_pos)
        + (n1.y_pos - n2.y_pos) * (n1.y_pos - n2.y_pos)

\* np.sqrt(...), in quarter units and rounded down; its only uses are int(...) and
\* a comparison with a whole number of quarter units, both unchanged by the rounding
get_distance_between_nodes(n1, n2) ==
    LET dx == Abs(n1.x_pos - n2.x_pos)
        dy == Abs(n1.y_pos - n2.y_pos)
        s == squared_distance(n1, n2)
    IN  CHOOSE r \in Max(dx, dy)..(dx + dy) : r * r <= s /\ (r + 1) * (r + 1) > s

\* int(distance): whole distance units
get_packet_travel_time(self, sender) == get_distance_between_nodes(self, sender) \div 4

\* self after add_neighbors(nodes): every node in range is appended, in list order
RECURSIVE add_neighbors(_, _)
add_neighbors(self, nodes) ==
    IF nodes = <<>> THEN self
    ELSE LET other == Head(nodes)
             in_range == /\ other.id # self.id
                         /\ get_distance_between_nodes(self, other)
                               < self.radius + other.radius + self.transceive_range
         IN  add_neighbors(IF in_range
                           THEN [self EXCEPT !.neighbors = Append(@, other.id)]
                           ELSE self,
                           Tail(nodes))

Contains(list, x) == \E i \in 1..Len(list) : list[i] = x

----------------------------------------------------------------------------
(* class Node: the collision check *)

\* lb of predicate_close_and_arriving: the first tick of t's arrival window at self
arrival_time(self, t) ==
    t.actual_transmit_time + get_packet_travel_time(self, node[t.source])

predicate_close_and_arriving(self, t, time) ==
    /\ time >= arrival_time(self, t)
    /\ time < arrival_time(self, t) + t.message.length
    /\ Contains(self.neighbors, t.source)

current_packets(self, time, transmissions) ==
    SelectSeq(transmissions, LAMBDA t : predicate_close_and_arriving(self, t, time))

\* has_collided with the reception counter started one tick short
has_collided_short(self, time, transmissions) ==
    LET packets == current_packets(self, time, transmissions)
    IN  IF Len(packets) = 0
        THEN [node |-> self, collision |-> FALSE]
        ELSE IF Len(packets) = 1 /\ arrival_time(self, packets[1]) = time
        THEN [node |-> [self EXCEPT !.state = Receiving,
                                    !.currently_receiving = packets[1],
                                    !.state_counter = packets[1].message.length - 1],
              collision |-> FALSE]
        ELSE IF Len(packets) >= 2
        THEN [node |-> [self EXCEPT !.state = Idle,
                                    !.state_counter = 0,
                                    !.currently_receiving = NoTransmission],
              collision |-> TRUE]
        ELSE [node |-> self, collision |-> FALSE]

\* has_collided taking any single audible transmission for a fresh arrival
has_collided_redetects(self, time, transmissions) ==
    LET packets == current_packets(self, time, transmissions)
    IN  IF Len(packets) = 0
        THEN [node |-> self, collision |-> FALSE]
        ELSE IF Len(packets) = 1
        THEN [node |-> [self EXCEPT !.state = Receiving,
                                    !.currently_receiving = packets[1],
                                    !.state_counter = packets[1].message.length],
              collision |-> FALSE]
        ELSE [node |-> [self EXCEPT !.state = Idle,
                                    !.state_counter = 0,
                                    !.currently_receiving = NoTransmission],
              collision |-> TRUE]

\* has_collided reporting a collision without resetting the node
has_collided_keeps(self, time, transmissions) ==
    LET packets == current_packets(self, time, transmissions)
    IN  IF Len(packets) = 0
        THEN [node |-> self, collision |-> FALSE]
        ELSE IF Len(packets) = 1 /\ arrival_time(self, packets[1]) = time
        THEN [node |-> [self EXCEPT !.state = Receiving,
                                    !.currently_receiving = packets[1],
                                    !.state_counter = packets[1].message.length],
              collision |-> FALSE]
        ELSE IF Len(packets) >= 2
        THEN [node |-> self, collision |-> TRUE]
        ELSE [node |-> self, collision |-> FALSE]

\* has_collided: the node after the call and the returned flag
has_collided(self, time, transmissions) ==
    LET packets == current_packets(self, time, transmissions)
    IN  IF Len(packets) = 0
        THEN [node |-> self, collision |-> FALSE]
        ELSE IF Len(packets) = 1 /\ arrival_time(self, packets[1]) = time
        THEN [node |-> [self EXCEPT !.state = Receiving,
                                    !.currently_receiving = packets[1],
                                    !.state_counter = packets[1].message.length],
              collision |-> FALSE]
        ELSE IF Len(packets) >= 2
        THEN [node |-> [self EXCEPT !.state = Idle,
                                    !.state_counter = 0,
                                    !.currently_receiving = NoTransmission],
              collision |-> TRUE]
        ELSE [node |-> self, collision |-> FALSE]

----------------------------------------------------------------------------
(* The driver: one tick is send_messages followed by one step of every node,
   in the order of scenario.nodes *)

NodeIds == {scenario.nodes[i] : i \in 1..Len(scenario.nodes)}

\* the node whose step is next in the loop of Scenario.run
IsTurn(n) == turn < Len(scenario.nodes) /\ scenario.nodes[turn + 1] = n

\* bookkeeping shared by the three state functions: the loop moves on
Stepped(n, self) ==
    /\ node' = [node EXCEPT ![n] = self]
    /\ turn' = turn + 1
    /\ state_log' = [state_log EXCEPT ![n] = Append(@, self.state)]
    /\ UNCHANGED <<simulation_time, horizon, scenario, routing_protocol, advertisements>>

\* the set randint(1, 16) is drawn from, when send_packet reaches it
Draws(p) == IF send_packet_draws(p) THEN BackoffDraws ELSE {BackoffMax}

\* idle_state asking the policy without looking at the state the collision
\* check left
idle_state_eager(n) ==
    /\ IsTurn(n)
    /\ node[n].state = Idle
    /\ LET checked == has_collided(node[n], simulation_time, active_transmissions)
           self == checked.node
       IN  IF checked.collision
           THEN /\ Stepped(n, self)
                /\ UNCHANGED <<active_transmissions, received_log>>
           ELSE \E draw \in Draws(self.protocol) :
                    LET sent == send_packet(self.protocol, draw)
                        packet == sent.packet
                    IN  IF packet # NoMessage
                        THEN /\ Stepped(n, [self EXCEPT !.protocol = sent.protocol,
                                                        !.state = Sending,
                                                        !.state_counter = packet.length])
                             /\ active_transmissions' =
                                    Append(active_transmissions,
                                           Transmission(0, n, simulation_time,
                                                        simulation_time, packet))
                             /\ UNCHANGED received_log
                        ELSE /\ Stepped(n, [self EXCEPT !.protocol = sent.protocol])
                             /\ UNCHANGED <<active_transmissions, received_log>>

idle_state(n) ==
    /\ IsTurn(n)
    /\ node[n].state = Idle
    /\ LET checked == has_collided(node[n], simulation_time, active_transmissions)
           self == checked.node
       IN  IF checked.collision \/ self.state # Idle
           THEN /\ Stepped(n, self)
                /\ UNCHANGED <<active_transmissions, received_log>>
           ELSE \E draw \in Draws(self.protocol) :
                    LET sent == send_packet(self.protocol, draw)
                        packet == sent.packet
                    IN  IF packet # NoMessage
                        THEN /\ Stepped(n, [self EXCEPT !.protocol = sent.protocol,
                                                        !.state = Sending,
                                                        !.state_counter = packet.length])
                             /\ active_transmissions' =
                                    Append(active_transmissions,
                                           Transmission(0, n, simulation_time,
                                                        simulation_time, packet))
                             /\ UNCHANGED received_log
                        ELSE /\ Stepped(n, [self EXCEPT !.protocol = sent.protocol])
                             /\ UNCHANGED <<active_transmissions, received_log>>

sending_state(n) ==
    /\ IsTurn(n)
    /\ node[n].state = Sending
    /\ LET counted == [node[n] EXCEPT !.state_counter = @ - 1]
       IN  Stepped(n, IF counted.state_counter = 0
                      THEN [counted EXCEPT !.state = Idle]
                      ELSE counted)
    /\ UNCHANGED <<active_transmissions, received_log>>

receiving_state(n) ==
    /\ IsTurn(n)
    /\ node[n].state = Receiving
    /\ LET checked == has_collided(node[n], simulation_time, active_transmissions)
           counted == [checked.node EXCEPT !.state_counter = @ - 1]
           message == counted.currently_receiving.message
       IN  IF checked.collision
           THEN /\ Stepped(n, checked.node)
                /\ UNCHANGED received_log
           ELSE IF counted.state_counter = 0
           THEN /\ Stepped(n, [counted EXCEPT
                                  !.state = Idle,
                                  !.protocol = receive_packet(@, message),
                                  !.currently_receiving = NoTransmission])
                /\ received_log' = Append(received_log,
                                          [node |-> n, time |-> simulation_time,
                                           message |-> message])
           ELSE /\ Stepped(n, counted)
                /\ UNCHANGED received_log
    /\ UNCHANGED active_transmissions

\* the dispatch on node.state
execute_state_machine(n) ==
    \/ idle_state(n)
    \/ sending_state(n)
    \/ receiving_state(n)

\* the protocols after the planned transmissions due at `time` were handed over
RECURSIVE handed_over(_, _, _)
handed_over(nodes, schedule, time) ==
    IF schedule = <<>> THEN nodes
    ELSE LET transmission == Head(schedule)
             source == transmission.source_node_id
         IN  handed_over(IF time = transmission.transmit_time
                         THEN [nodes EXCEPT ![source].protocol =
                                   generate_packet(@, transmission.message)]
                         ELSE nodes,
                         Tail(schedule), time)

\* node.move(): one tick of the node's velocity
move(self) == [self EXCEPT !.x_pos = @ + self.vx, !.y_pos = @ + self.vy]

\* the nodes after the loop `node.move(); node.add_neighbors(self.nodes)` over
\* the node ids in `order`; each add_neighbors sees the positions of the moment
RECURSIVE moved(_, _)
moved(nodes, order) ==
    IF order = <<>> THEN nodes
    ELSE LET id == Head(order)
             stepped == [nodes EXCEPT ![id] = move(@)]
             all == [i \in 1..Len(scenario.nodes) |-> stepped[scenario.nodes[i]]]
         IN  moved([stepped EXCEPT ![id] = add_neighbors(@, all)], Tail(order))

\* the head of Scenario.run for the next tick
send_messages ==
    /\ turn = Len(scenario.nodes)
    /\ simulation_time < horizon
    /\ simulation_time' = simulation_time + 1
    /\ turn' = 0
    /\ LET handed == handed_over(node, scenario.send_schedule, simulation_time + 1)
       IN  node' = IF scenario.movement THEN moved(handed, scenario.nodes) ELSE handed
    /\ UNCHANGED <<horizon, scenario, active_transmissions, received_log, state_log,
                   routing_protocol, advertisements>>

Next ==
    \/ send_messages
    \/ \E n \in NodeIds : execute_state_machine(n)

----------------------------------------------------------------------------
(* Construction *)

\* a routing table entry: next hop, hop count, the sequence number of the
\* advertisement that produced it, and the tick of its last update
Route(next_hop, hops, sequence_number, updated) ==
    [next_hop |-> next_hop, hops |-> hops, sequence_number |-> sequence_number,
     updated |-> updated]

\* DSDVRoutingProtocol(node.id): the table holds the node's own entry
\* (self, 0, self-local sequence counter)
DSDVRoutingProtocol(id) == [id |-> id, table |-> (id :> Route(id, 0, 0, 0))]

\* node_class(id, radius, transceiver_range, x, y) with its ALOHA policy, whose
\* constructor draws the first backoff
node_class(id, radius, transceive_range, x, y, draw) ==
    [id |-> id, state |-> Idle, radius |-> radius, transceive_range |-> transceive_range,
     x_pos |-> x, y_pos |-> y, vx |-> 0, vy |-> 0, neighbors |-> <<>>,
     currently_receiving |-> NoTransmission, state_counter |-> 0,
     protocol |-> ALOHA(id, draw)]

Scenario(name, radius, transceive_range, nodes, send_schedule, movement) ==
    [name |-> name, radius |-> radius, transceive_range |-> transceive_range,
     nodes |-> nodes, send_schedule |-> send_schedule, movement |-> movement]

\* create_scenario for nodes placed at `places` (a list of [id, x, y]), radius 0.25
create_scenario(places, transmit_range, send_schedule, movement) ==
    Scenario("Routing", 1, 12, [i \in 1..Len(places) |-> places[i].id],
             send_schedule, movement)

\* a node's place and its velocity per tick
MovingPlace(id, x, y, vx, vy) == [id |-> id, x |-> x, y |-> y, vx |-> vx, vy |-> vy]

Place(id, x, y) == MovingPlace(id, x, y, 0, 0)

\* the nodes of create_scenario after Scenario.setup, for one outcome of the
\* constructors' backoff draws (node id -> draw)
setup(places, transmit_range, draws) ==
    LET ids == {places[i].id : i \in 1..Len(places)}
        place(id) == CHOOSE i \in 1..Len(places) : places[i].id = id
        made == [i \in 1..Len(places) |->
                    [node_class(places[i].id, 1, transmit_range,
                                places[i].x, places[i].y, draws[places[i].id])
                        EXCEPT !.vx = places[i].vx, !.vy = places[i].vy]]
    IN  [id \in ids |-> add_neighbors(made[place(id)], made)]

\* the state after construction and setup of one of `cases`
\* (records [places, transmit_range, send_schedule]), with tick bound `bound`
\* and the first backoffs drawn from `first_draws`
InitOf(cases, bound, first_draws) ==
    \E c \in cases :
        LET ids == {c.places[i].id : i \in 1..Len(c.places)}
        IN  \E draws \in [ids -> first_draws] :
                /\ scenario = create_scenario(c.places, c.transmit_range,
                                              c.send_schedule, c.movement)
                /\ node = setup(c.places, c.transmit_range, draws)
                /\ state_log = [id \in ids |-> <<>>]
                /\ routing_protocol = [id \in ids |-> DSDVRoutingProtocol(id)]
                /\ turn = Len(c.places)
    /\ horizon = bound
    /\ simulation_time = 0
    /\ active_transmissions = <<>>
    /\ received_log = <<>>
    /\ advertisements = {}

\* a scenario with movement switched on
MovingCase(places, transmit_range, send_schedule) ==
    [places |-> places, transmit_range |-> transmit_range,
     send_schedule |-> send_schedule, movement |-> TRUE]

Case(places, transmit_range, send_schedule) ==
    [MovingCase(places, transmit_range, send_schedule) EXCEPT !.movement = FALSE]

\* Two parties two distance units apart, each with traffic for the other
TwoParty ==
    Case(<<Place(0, 0, 0), Place(100, 8, 0)>>, 12,
         <<PlannedTransmission(1, HighLevelMessage(100, "Hello message", 2), 0),
           PlannedTransmission(1, HighLevelMessage(0, "Hello back", 1), 100),
           PlannedTransmission(2, HighLevelMessage(100, "Second message", 1), 0)>>)

Init == InitOf({TwoParty}, MaxTime, BackoffDraws)

Spec == Init /\ [][Next]_vars

----------------------------------------------------------------------------
(* Reading the histories *)

Last(list) == list[Len(list)]

\* the place of node n in scenario.nodes
Pos(n) == CHOOSE i \in 1..Len(scenario.nodes) : scenario.nodes[i] = n

\* n has executed its step of tick t
HasStepped(n, t) == t >= 1 /\ Len(state_log[n]) >= t

\* n's state when its step of tick t began, and when it ended
StateBefore(n, t) == IF t = 1 THEN Idle ELSE state_log[n][t - 1]
StateAfter(n, t) == state_log[n][t]

\* the ledger as n's step of tick t found it: what was appended in earlier ticks,
\* and in tick t by the nodes stepped before n
LedgerAt(n, t) ==
    SelectSeq(active_transmissions,
              LAMBDA tr : \/ tr.actual_transmit_time < t
                          \/ tr.actual_transmit_time = t /\ Pos(tr.source) < Pos(n))

\* the neighbour transmissions whose arrival window at n contains tick t
HeardAt(n, t) == current_packets(node[n], t, LedgerAt(n, t))

\* the calls of receive_packet at node n during ticks from..to
ReceivedBetween(n, from, to) ==
    SelectSeq(received_log, LAMBDA e : e.node = n /\ e.time >= from /\ e.time <= to)

\* n's step of tick t called protocol.send_packet: an Idle step whose collision
\* check found neither a collision nor a fresh arrival
CalledSendPacket(n, t) ==
    /\ StateBefore(n, t) = Idle
    /\ StateAfter(n, t) # Receiving
    /\ Len(HeardAt(n, t)) < 2

----------------------------------------------------------------------------
(* C1 *)

\* tr is the only neighbour transmission R can hear during ticks from..to
OnlyHeard(R, tr, from, to) ==
    \A u \in from..to :
        \A j \in 1..Len(active_transmissions) :
            predicate_close_and_arriving(node[R], active_transmissions[j], u)
                => active_transmissions[j] = tr

\* R was Idle when tick T began, and the single transmission tr from a neighbour
\* begins to arrive at R at T, nothing else being audible at R until T + length
SingleArrival(R, tr) ==
    LET T == arrival_time(node[R], tr)
    IN  /\ Contains(node[R].neighbors, tr.source)
        /\ HasStepped(R, T)
        /\ StateBefore(R, T) = Idle
        /\ Len(SelectSeq(LedgerAt(R, T), LAMBDA x : x = tr)) = 1
        /\ OnlyHeard(R, tr, T, T + tr.message.length)

\* C1: a receiver that is Idle at tick T when a single neighbour transmission
\* begins to arrive (lb = T) is Receiving after its step of tick T and through
\* tick T + length - 1, is Idle after its step of tick T + length, and
\* receive_packet is called exactly once in those ticks, at tick T + length,
\* with the transmitted frame unmodified.
C1_SingleArrival ==
    \A R \in NodeIds :
        \A i \in 1..Len(active_transmissions) :
            LET tr == active_transmissions[i]
                T == arrival_time(node[R], tr)
                done == T + tr.message.length
            IN  SingleArrival(R, tr) =>
                    /\ StateAfter(R, T) = Receiving
                    /\ \A u \in T..(done - 1) : HasStepped(R, u) => StateAfter(R, u) = Receiving
                    /\ HasStepped(R, done) =>
                          /\ StateAfter(R, done) = Idle
                          /\ ReceivedBetween(R, T, done)
                                = <<[node |-> R, time |-> done, message |-> tr.message]>>

\* a single arrival has been received to its end
C1_Witness ==
    \E R \in NodeIds :
        \E i \in 1..Len(active_transmissions) :
            LET tr == active_transmissions[i]
            IN  /\ SingleArrival(R, tr)
                /\ HasStepped(R, arrival_time(node[R], tr) + tr.message.length)
                /\ tr.message.length > 1

----------------------------------------------------------------------------
(* C9 *)

\* the calls of receive_packet at node n, oldest first
ReceivedAt(n) == SelectSeq(received_log, LAMBDA e : e.node = n)

\* this step is n's Receiving step that hands the data frame d, addressed to n,
\* to receive_packet
ProcessesData(n, d) ==
    /\ IsTurn(n)
    /\ received_log' = Append(received_log,
                              [node |-> n, time |-> simulation_time, message |-> d])
    /\ d.target = n
    /\ d.content # "ack"

\* the last frame receive_packet processed at n is the data frame d addressed to
\* n, and n has not called send_packet since
AckPending(n, d) ==
    /\ ReceivedAt(n) # <<>>
    /\ Last(ReceivedAt(n)).message = d
    /\ d.target = n
    /\ d.content # "ack"
    /\ \A u \in (Last(ReceivedAt(n)).time + 1)..(simulation_time - 1) :
           ~CalledSendPacket(n, u)

\* this step is an Idle step of n with no arrival and no collision
QuietIdleStep(n) ==
    /\ IsTurn(n)
    /\ node[n].state = Idle
    /\ LET checked == has_collided(node[n], simulation_time, active_transmissions)
       IN  ~checked.collision /\ checked.node.state = Idle

\* n starts transmitting `message` in this step
Transmits(n, message) ==
    active_transmissions' =
        Append(active_transmissions,
               Transmission(0, n, simulation_time, simulation_time, message))

AckFrames == {get_ack(received_log[i].message) : i \in 1..Len(received_log)}

\* C9 as stated: processing a data frame d addressed to the node puts the ack
\* of d at the head of the buffer and sets backoff to 0, and the node transmits
\* that ack at its next Idle tick that has no arrival and no collision.
C9_AckAtNextIdleTick ==
    [][\A n \in NodeIds :
          /\ \A e \in {received_log'[i] : i \in 1..Len(received_log')} :
                ProcessesData(n, e.message) =>
                    /\ node'[n].protocol.buffer
                          = <<get_ack(e.message)>> \o node[n].protocol.buffer
                    /\ node'[n].protocol.backoff = 0
          /\ \A a \in AckFrames :
                (\E e \in {received_log[i] : i \in 1..Len(received_log)} :
                     a = get_ack(e.message) /\ AckPending(n, e.message))
                /\ QuietIdleStep(n)
                    => Transmits(n, a)]_vars

\* C9, amended: the same, the ack being transmitted at that tick when the node
\* is not waiting for an ack of its own (ack_await_counter = 0).
C9_AckPriority ==
    [][\A n \in NodeIds :
          /\ \A e \in {received_log'[i] : i \in 1..Len(received_log')} :
                ProcessesData(n, e.message) =>
                    /\ node'[n].protocol.buffer
                          = <<get_ack(e.message)>> \o node[n].protocol.buffer
                    /\ node'[n].protocol.backoff = 0
          /\ \A a \in AckFrames :
                (\E e \in {received_log[i] : i \in 1..Len(received_log)} :
                     a = get_ack(e.message) /\ AckPending(n, e.message))
                /\ QuietIdleStep(n)
                /\ node[n].protocol.ack_await_counter = 0
                    => Transmits(n, a)]_vars

\* a node has just transmitted the ack of the data frame it processed last,
\* ahead of a data frame of its own that was queued before
C9_Witness ==
    \E n \in NodeIds :
        /\ active_transmissions # <<>>
        /\ ReceivedAt(n) # <<>>
        /\ LET tr == Last(active_transmissions)
               d == Last(ReceivedAt(n)).message
           IN  /\ tr.source = n
               /\ tr.actual_transmit_time = simulation_time
               /\ d.target = n
               /\ d.content # "ack"
               /\ tr.message = get_ack(d)
               /\ Len(node[n].protocol.buffer) > 1

----------------------------------------------------------------------------
(* C10 *)

Frames(list) == {list[i] : i \in 1..Len(list)}

\* every data frame with source n that the run has seen: in n's buffer, on the
\* ledger, or handed to a receive_packet
DataFramesOf(n) ==
    {m \in Frames(node[n].protocol.buffer)
            \cup {active_transmissions[i].message : i \in 1..Len(active_transmissions)}
            \cup {received_log[i].message : i \in 1..Len(received_log)} :
        m.source = n /\ m.content # "ack"}

\* C10: the data frames a node creates carry strictly increasing sequence
\* numbers in creation order (the order of its buffer), each between 1 and the
\* node's counter, and no two distinct data frames of one source share a
\* sequence number wherever they are seen (buffer, ledger, deliveries).
C10_SequenceNumbers ==
    \A n \in NodeIds :
        LET buffer == node[n].protocol.buffer
        IN  /\ \A f, g \in DataFramesOf(n) :
                  f.sequence_number = g.sequence_number => f = g
            /\ \A f \in DataFramesOf(n) :
                  f.sequence_number >= 1
                  /\ f.sequence_number <= node[n].protocol.sequence_number
            /\ \A i, j \in 1..Len(buffer) :
                  /\ i < j
                  /\ buffer[i] \in DataFramesOf(n)
                  /\ buffer[j] \in DataFramesOf(n)
                  => buffer[i].sequence_number < buffer[j].sequence_number

\* a node has created two data frames and has put the first on the ledger
C10_Witness ==
    \E n \in NodeIds :
        /\ Cardinality(DataFramesOf(n)) >= 2
        /\ \E i \in 1..Len(active_transmissions) :
               active_transmissions[i].message \in DataFramesOf(n)

----------------------------------------------------------------------------
(* C2 *)

\* Three nodes on a line: 0 hears both 1 (one unit away) and 100 (three units
\* away), which are out of each other's range; both have traffic for 0
HiddenTerminals ==
    Case(<<Place(1, -4, 0), Place(0, 0, 0), Place(100, 12, 0)>>, 12,
         <<PlannedTransmission(1, HighLevelMessage(0, "Hello message", 2), 100),
           PlannedTransmission(1, HighLevelMessage(0, "Hello too", 2), 1)>>)

InitThree == InitOf({HiddenTerminals}, MaxTimeThree, BackoffDraws)

SpecThree == InitThree /\ [][Next]_vars

\* R executed its step of tick t in state Idle or Receiving while two or more
\* neighbour transmissions had arrival windows containing t
CollisionAt(R, t) ==
    /\ HasStepped(R, t)
    /\ StateBefore(R, t) \in {Idle, Receiving}
    /\ Len(HeardAt(R, t)) >= 2

----------------------------------------------------------------------------
(* C6 *)

\* Source 0 and sink 100 five distance units apart (a 3-4-5 triangle), within
\* range of each other; the source is handed the Hello message at tick 2
EndToEnd ==
    Case(<<Place(0, 0, 0), Place(100, 12, 16)>>, 40,
         <<PlannedTransmission(2, HighLevelMessage(100, "Hello message", 5), 0)>>)

InitE2E == InitOf({EndToEnd}, MaxTimeE2E, BackoffDraws)

\* the driver runs every tick up to its bound
SpecE2E == InitE2E /\ [][Next]_vars /\ WF_vars(Next)

HelloFrame == Message(100, 0, 1, "Hello message", 5)

\* the sink's receive_packet has been handed the Hello frame
HelloDelivered ==
    \E i \in 1..Len(received_log) :
        received_log[i].node = 100 /\ received_log[i].message.content = "Hello message"

\* no delivery of it before tick 2 + travel time 5 + frame length 5
HelloNotEarly ==
    \A i \in 1..Len(received_log) :
        received_log[i].node = 100 /\ received_log[i].message.content = "Hello message"
            => /\ received_log[i].time >= 2 + 5 + 5
               /\ received_log[i].message = HelloFrame

\* the source has just processed the sink's ack of the Hello frame
AckRoundTripDone ==
    /\ turn >= Pos(0)
    /\ ReceivedAt(0) # <<>>
    /\ Last(ReceivedAt(0)).time = simulation_time
    /\ Last(ReceivedAt(0)).message = get_ack(HelloFrame)

\* the source's receive_packet has been handed the ack of the Hello frame
HelloAcked ==
    \E i \in 1..Len(received_log) :
        received_log[i].node = 0 /\ received_log[i].message = get_ack(HelloFrame)

\* the last tick at which the source can first transmit: handed over at tick 2,
\* the first backoff at most BackoffMax
LastFirstSend == 2 + BackoffMax - 1

\* C6: the sink is delivered the frame with content "Hello message", never
\* before tick 2 + 5 + 5 and in every run by the end of the tick that lies the
\* longest first backoff, the travel time and the frame length after tick 2;
\* the ack comes back to the source in every run, and when the source has
\* processed it the source's buffer is empty.
C6_EndToEnd ==
    /\ HelloNotEarly
    /\ simulation_time > LastFirstSend + 5 + 5 => HelloDelivered
    /\ simulation_time > LastFirstSend + 5 + 5 + 1 + 5 + 1 => HelloAcked
    /\ AckRoundTripDone => node[0].protocol.buffer = <<>>

\* the ack round trip has completed after a delivery at the earliest tick
C6_Witness ==
    /\ AckRoundTripDone
    /\ node[0].protocol.buffer = <<>>
    /\ \E i \in 1..Len(received_log) :
           received_log[i].node = 100 /\ received_log[i].time = 12

----------------------------------------------------------------------------
(* Replayed runs: C3, C5, C7 *)

\* The line of HiddenTerminals: 0 sends a frame to 100 while 1 sends one to 0
Relay ==
    Case(<<Place(1, -4, 0), Place(0, 0, 0), Place(100, 12, 0)>>, 12,
         <<PlannedTransmission(1, HighLevelMessage(100, "Hello message", 1), 0),
           PlannedTransmission(1, HighLevelMessage(0, "Hello too", 1), 1)>>)

\* Two nodes half a distance unit apart (travel time 0), in either list order
Colocated ==
    Case(<<Place(0, 0, 0), Place(100, 2, 0)>>, 12,
         <<PlannedTransmission(1, HighLevelMessage(100, "Hello message", 2), 0)>>)

ColocatedSinkFirst ==
    Case(<<Place(100, 2, 0), Place(0, 0, 0)>>, 12,
         <<PlannedTransmission(1, HighLevelMessage(100, "Hello message", 2), 0)>>)

\* The two parties of TwoParty; the source is handed a message of length 0
ZeroLength ==
    Case(<<Place(0, 0, 0), Place(100, 8, 0)>>, 12,
         <<PlannedTransmission(1, HighLevelMessage(100, "Hello message", 0), 0)>>)

\* Node 100 half a distance unit from node 0 and listed after it; node 1, in
\* range of node 0 only, sends node 0 a frame of length 3, and while it
\* arrives node 100 sends node 0 a frame of length 1
Crowd ==
    Case(<<Place(0, 0, 0), Place(100, 2, 0), Place(1, -13, 0)>>, 12,
         <<PlannedTransmission(1, HighLevelMessage(0, "Hello message", 3), 1),
           PlannedTransmission(4, HighLevelMessage(0, "Hello too", 1), 100)>>)

InitReplay ==
    InitOf({Relay, Colocated, ColocatedSinkFirst, ZeroLength, Crowd},
           MaxTimeReplay, 1..MaxFirstDraw)

SpecReplay == InitReplay /\ [][Next]_vars

\* this step is n's Receiving step that hands message m to receive_packet
Processes(n, m) ==
    /\ IsTurn(n)
    /\ received_log' = Append(received_log,
                              [node |-> n, time |-> simulation_time, message |-> m])

ProcessedNow == {received_log'[i].message : i \in 1..Len(received_log')}

\* the transmissions of node n, oldest first
SentBy(n) == SelectSeq(active_transmissions, LAMBDA tr : tr.source = n)

RemoveAt(list, i) == SubSeq(list, 1, i - 1) \o SubSeq(list, i + 1, Len(list))

\* C3: when receive_packet is handed the ack of the frame f the node
\* transmitted last, the ack-wait budget still running, exactly one buffer
\* entry is removed and it is f, the other entries are unchanged and
\* ack_await_counter becomes 0.
C3_AckRoundTrip ==
    [][\A n \in NodeIds : \A m \in ProcessedNow :
          /\ Processes(n, m)
          /\ SentBy(n) # <<>>
          /\ m = get_ack(Last(SentBy(n)).message)
          /\ node[n].protocol.ack_await_counter > 0
          => /\ \E i \in 1..Len(node[n].protocol.buffer) :
                    /\ node[n].protocol.buffer[i] = Last(SentBy(n)).message
                    /\ node'[n].protocol.buffer = RemoveAt(node[n].protocol.buffer, i)
             /\ node'[n].protocol.ack_await_counter = 0]_vars

\* the ack m is the ack of the head of p's buffer: it comes from the head's
\* target and carries the head's sequence number
MatchesHead(p, m) ==
    /\ p.buffer # <<>>
    /\ m.source = Head(p.buffer).target
    /\ m.sequence_number = Head(p.buffer).sequence_number

\* C5: receive_packet, handed an ack addressed to the node that does not match
\* the buffer head, leaves buffer, backoff and ack_await_counter unchanged and
\* enqueues no reply.
C5_StrayAckIgnored ==
    [][\A n \in NodeIds : \A m \in ProcessedNow :
          /\ Processes(n, m)
          /\ m.content = "ack"
          /\ m.target = n
          /\ ~MatchesHead(node[n].protocol, m)
          => node'[n].protocol = node[n].protocol]_vars

\* C7: the collision check of a node's step at tick T sees no transmission
\* that was started at tick T.
C7_NoSameTickArrival ==
    \A n \in NodeIds :
        \A t \in 1..simulation_time :
            HasStepped(n, t) /\ StateBefore(n, t) \in {Idle, Receiving}
                => \A i \in 1..Len(HeardAt(n, t)) :
                       HeardAt(n, t)[i].actual_transmit_time < t

----------------------------------------------------------------------------
(* Long runs: C4, C8 *)

\* The two parties of TwoParty; the source is handed one frame at tick 1 and
\* two more once the first round trip is long over
Burst ==
    Case(<<Place(0, 0, 0), Place(100, 8, 0)>>, 12,
         <<PlannedTransmission(1, HighLevelMessage(100, "Hello message", 1), 0),
           PlannedTransmission(56, HighLevelMessage(100, "Second message", 1), 0),
           PlannedTransmission(56, HighLevelMessage(100, "Third message", 1), 0)>>)

InitLong == InitOf({TwoParty, Burst}, MaxTimeLong, 1..MaxFirstDraw)

SpecLong == InitLong /\ [][Next]_vars

\* how many times n called send_packet during ticks from..to
RECURSIVE SendPacketCalls(_, _, _)
SendPacketCalls(n, from, to) ==
    IF from > to THEN 0
    ELSE (IF CalledSendPacket(n, to) THEN 1 ELSE 0) + SendPacketCalls(n, from, to - 1)

\* n processed the ack of transmission tr's frame after tr and not after tick `to`
AckProcessed(n, tr, to) ==
    \E i \in 1..Len(received_log) :
        /\ received_log[i].node = n
        /\ received_log[i].time > tr.actual_transmit_time
        /\ received_log[i].time <= to
        /\ received_log[i].message = get_ack(tr.message)

\* n processed some frame addressed to it after tr and not after tick `to`
AnyProcessed(n, tr, to) ==
    \E i \in 1..Len(received_log) :
        /\ received_log[i].node = n
        /\ received_log[i].time > tr.actual_transmit_time
        /\ received_log[i].time <= to
        /\ received_log[i].message.target = n

\* the frame was retransmitted: sent again after send_packet was called
\* AckAwait times for the budget and then once for every unit of a backoff
\* drawn from 1..BackoffMax
Retransmitted(n, first, next) ==
    /\ next.message = first.message
    /\ SendPacketCalls(n, first.actual_transmit_time + 1, next.actual_transmit_time)
          \in (AckAwait + 1)..(AckAwait + BackoffMax)

\* n has just put its second or a later transmission on the ledger; every
\* pair of successive transmissions is the latest pair in the tick of the
\* second one, and the ledger and the logs only grow
JustTransmitted(n) ==
    /\ Len(SentBy(n)) >= 2
    /\ Last(SentBy(n)).actual_transmit_time = simulation_time

Previous(n) == SentBy(n)[Len(SentBy(n)) - 1]

C8_OneOutstanding ==
    \A n \in NodeIds :
        JustTransmitted(n) =>
            \/ AckProcessed(n, Previous(n), simulation_time)
            \/ SendPacketCalls(n, Previous(n).actual_transmit_time + 1,
                               simulation_time) > AckAwait

----------------------------------------------------------------------------
(* C11 *)

\* C11: state_counter of every node is greater than or equal to 0 in every
\* reachable state, whatever the length of the frames handed to the nodes.
C11_StateCounterNonNegative ==
    \A n \in NodeIds : node[n].state_counter >= 0

----------------------------------------------------------------------------
(* C12 *)

\* the ALOHA policy p would hand out a frame if send_packet were called now
WouldTransmit(p) == send_packet(p, BackoffMax).packet # NoMessage

\* exactly one neighbour transmission is audible at n now and it begins to
\* arrive at this tick
FreshArrival(n) ==
    LET packets == current_packets(node[n], simulation_time, active_transmissions)
    IN  Len(packets) = 1 /\ arrival_time(node[n], packets[1]) = simulation_time

\* C12: an Idle step at a tick where a fresh arrival begins, the policy being
\* ready to transmit, puts the node into Receiving, appends nothing to the
\* ledger and leaves buffer, backoff and ack_await_counter as they were.
C12_ArrivalBeforeSend ==
    [][\A n \in NodeIds :
          /\ IsTurn(n)
          /\ node[n].state = Idle
          /\ FreshArrival(n)
          /\ WouldTransmit(node[n].protocol)
          => /\ node'[n].state = Receiving
             /\ active_transmissions' = active_transmissions
             /\ node'[n].protocol = node[n].protocol]_vars

\* a node ready to transmit has just entered Receiving from Idle instead
C12_Witness ==
    \E n \in NodeIds :
        /\ HasStepped(n, simulation_time)
        /\ StateBefore(n, simulation_time) = Idle
        /\ node[n].state = Receiving
        /\ arrival_time(node[n], node[n].currently_receiving) = simulation_time
        /\ WouldTransmit(node[n].protocol)

----------------------------------------------------------------------------
(* C13 *)

\* exactly one neighbour transmission is audible at n now and it began to
\* arrive at an earlier tick
Continuation(n) ==
    LET packets == current_packets(node[n], simulation_time, active_transmissions)
    IN  Len(packets) = 1 /\ arrival_time(node[n], packets[1]) # simulation_time

\* C13: in a step of an Idle or Receiving node at which exactly one neighbour
\* transmission is audible and its first tick is past, the collision check
\* reports nothing and changes nothing: an Idle node does not enter Receiving
\* and keeps no reception, a Receiving node counts its reception down by one
\* and keeps it or delivers it; and a node takes up a transmission only at the
\* first tick of its arrival window.
C13_Continuation ==
    [][\A n \in NodeIds :
          /\ (IsTurn(n) /\ node[n].state \in {Idle, Receiving} /\ Continuation(n))
                => /\ has_collided(node[n], simulation_time, active_transmissions)
                          = [node |-> node[n], collision |-> FALSE]
                   /\ node[n].state = Idle
                          => /\ node'[n].state # Receiving
                             /\ node'[n].currently_receiving = node[n].currently_receiving
                   /\ node[n].state = Receiving
                          => /\ node'[n].state_counter = node[n].state_counter - 1
                             /\ \/ node'[n].currently_receiving = node[n].currently_receiving
                                \/ Processes(n, node[n].currently_receiving.message)
          /\ (/\ node'[n].currently_receiving # node[n].currently_receiving
              /\ node'[n].currently_receiving # NoTransmission)
                => arrival_time(node[n], node'[n].currently_receiving) = simulation_time
      ]_vars

\* an Idle node has just stepped through a tick inside the window of a single
\* transmission whose first tick it spent Sending, and is not Receiving
C13_Witness ==
    \E n \in NodeIds :
        LET t == simulation_time
        IN  /\ HasStepped(n, t)
            /\ StateBefore(n, t) = Idle
            /\ Len(HeardAt(n, t)) = 1
            /\ arrival_time(node[n], HeardAt(n, t)[1]) < t
            /\ StateBefore(n, arrival_time(node[n], HeardAt(n, t)[1])) = Sending
            /\ node[n].state # Receiving
            /\ node[n].currently_receiving = NoTransmission

----------------------------------------------------------------------------
(* Moving nodes: C14 *)

\* Node 1 walks away from node 0, half a distance unit per tick, and leaves its
\* range at tick 3; node 0, listed after it, stands still
Walk ==
    MovingCase(<<MovingPlace(1, 8, 0, 2, 0), Place(0, 0, 0)>>, 12,
               <<PlannedTransmission(1, HighLevelMessage(1, "Hello message", 1), 0)>>)

\* The two parties of TwoParty, neighbours recomputed every tick, nobody moving
Standing ==
    MovingCase(<<Place(0, 0, 0), Place(100, 8, 0)>>, 12,
               <<PlannedTransmission(1, HighLevelMessage(100, "Hello message", 1), 0)>>)

InitMobile == InitOf({Walk, Standing}, MaxTimeMobile, 1..MaxFirstDraw)

SpecMobile == InitMobile /\ [][Next]_vars

\* the other nodes within radius_self + radius_other + transceive_range of n
InRange(n) ==
    {m \in NodeIds \ {n} :
        get_distance_between_nodes(node[n], node[m])
            < node[n].radius + node[m].radius + node[n].transceive_range}

\* C14: the neighbours of every node are exactly the other nodes in range of
\* its position, each of them once.
C14_NeighborsFromPositions ==
    \A n \in NodeIds :
        /\ Frames(node[n].neighbors) = InRange(n)
        /\ Len(node[n].neighbors) = Cardinality(InRange(n))

----------------------------------------------------------------------------
(* C15 *)

\* reading self.collision_counter: class Node declares no such field and no
\* method assigns one, so the read finds it only if the record carries it
collision_counter(self) ==
    IF "collision_counter" \in DOMAIN self
    THEN [defined |-> TRUE, value |-> self.collision_counter]
    ELSE [defined |-> FALSE, value |-> 0]

\* Scenario.get_collision_count: the counter of the first node of the list
get_collision_count == collision_counter(node[scenario.nodes[1]])

\* this step is a step of n whose collision check finds two or more
\* overlapping neighbour transmissions
CollisionStep(n) ==
    /\ IsTurn(n)
    /\ node[n].state \in {Idle, Receiving}
    /\ Len(current_packets(node[n], simulation_time, active_transmissions)) >= 2

\* C15: a step whose collision check finds two or more overlapping neighbour
\* transmissions raises the node's collision_counter by exactly 1, and no
\* other step changes it.
C15_CollisionCounted ==
    [][\A n \in NodeIds :
          /\ CollisionStep(n)
                => /\ collision_counter(node[n]).defined
                   /\ collision_counter(node'[n]).defined
                   /\ collision_counter(node'[n]).value
                          = collision_counter(node[n]).value + 1
          /\ ~CollisionStep(n)
                => collision_counter(node'[n]) = collision_counter(node[n])
      ]_vars

----------------------------------------------------------------------------
(* DSDV: C16 *)

table(n) == routing_protocol[n].table

\* the advertisement of p: its full table as (destination, hop count,
\* sequence number) tuples
advertisement(p) ==
    [d \in DOMAIN p.table |->
        [hops |-> p.table[d].hops, sequence_number |-> p.table[d].sequence_number]]

\* the freshness test without the comparison of the hop counts
fresher_ignoring_hops(advertised, entry) ==
    advertised.sequence_number >= entry.sequence_number

\* the advertised tuple is strictly newer than the entry, or as new and strictly
\* shorter by way of the advertising neighbour
fresher(advertised, entry) ==
    \/ advertised.sequence_number > entry.sequence_number
    \/ /\ advertised.sequence_number = entry.sequence_number
       /\ advertised.hops + 1 < entry.hops

\* p after the advertisement `entries` of neighbour `from` was received at `time`
updated(p, entries, from, time) ==
    [p EXCEPT !.table =
        [d \in DOMAIN p.table \cup DOMAIN entries |->
            IF d \in DOMAIN entries
               /\ (d \notin DOMAIN p.table \/ fresher(entries[d], p.table[d]))
            THEN Route(from, entries[d].hops + 1, entries[d].sequence_number, time)
            ELSE p.table[d]]]

\* the local changes so far: the sum of the own sequence counters of `ids`
RECURSIVE Changes(_)
Changes(ids) ==
    IF ids = {} THEN 0
    ELSE LET n == CHOOSE id \in ids : TRUE
         IN  table(n)[n].sequence_number + Changes(ids \ {n})

\* routing_protocol.tick() of node n followed by node.send: after a local change
\* the own sequence counter is incremented; the full table goes out to every
\* current neighbour
dsdv_tick(n, changed) ==
    /\ changed => Changes(NodeIds) < MaxSequence
    /\ LET p == IF changed
                THEN [routing_protocol[n] EXCEPT !.table[n].sequence_number = @ + 1,
                                                 !.table[n].updated = simulation_time]
                ELSE routing_protocol[n]
           sent == {[target |-> m, source |-> n, entries |-> advertisement(p)] :
                        m \in Frames(node[n].neighbors)}
       IN  /\ Cardinality(advertisements \cup sent) <= MaxInFlight
           /\ routing_protocol' = [routing_protocol EXCEPT ![n] = p]
           /\ advertisements' = advertisements \cup sent
    /\ UNCHANGED <<simulation_time, turn, horizon, scenario, node,
                   active_transmissions, received_log, state_log>>

\* node.receive() hands the advertisement to routing_protocol.reply
dsdv_reply(message) ==
    /\ message \in advertisements
    /\ routing_protocol' =
           [routing_protocol EXCEPT ![message.target] =
               updated(@, message.entries, message.source, simulation_time)]
    /\ advertisements' = advertisements \ {message}
    /\ UNCHANGED <<simulation_time, turn, horizon, scenario, node,
                   active_transmissions, received_log, state_log>>

\* the frame that carries the advertisement is lost on the channel
dsdv_lost(message) ==
    /\ message \in advertisements
    /\ advertisements' = advertisements \ {message}
    /\ UNCHANGED <<simulation_time, turn, horizon, scenario, node,
                   active_transmissions, received_log, state_log, routing_protocol>>

NextDSDV ==
    \/ \E n \in NodeIds : \E changed \in BOOLEAN : dsdv_tick(n, changed)
    \/ \E message \in advertisements : dsdv_reply(message)
    \/ \E message \in advertisements : dsdv_lost(message)

\* Three nodes on a line, the outer two out of each other's range, no traffic
Line == Case(<<Place(1, -4, 0), Place(0, 0, 0), Place(100, 12, 0)>>, 12, <<>>)

InitDSDV == InitOf({Line}, 0, {BackoffMax})

SpecDSDV == InitDSDV /\ [][NextDSDV]_vars

\* in this step n's entry for d is replaced by the tuple for d of an
\* advertisement that n receives, by way of the advertising neighbour
ReplacedByAdvertisement(n, d) ==
    \E message \in advertisements :
        /\ message.target = n
        /\ advertisements' = advertisements \ {message}
        /\ d \in DOMAIN message.entries
        /\ routing_protocol'[n].table[d].next_hop = message.source
        /\ routing_protocol'[n].table[d].hops = message.entries[d].hops + 1
        /\ routing_protocol'[n].table[d].sequence_number
              = message.entries[d].sequence_number

\* the entry `new` is fresher than the entry `old`
Fresher(new, old) ==
    \/ new.sequence_number > old.sequence_number
    \/ new.sequence_number = old.sequence_number /\ new.hops < old.hops

\* C16 as stated: an entry of a routing table is never deleted, and it changes
\* only in a step that receives an advertisement and replaces it by that
\* advertisement's tuple, which has a strictly greater sequence number or the
\* same sequence number and a strictly smaller hop count.
C16_FreshnessRule ==
    [][\A n \in NodeIds : \A d \in DOMAIN table(n) :
          /\ d \in DOMAIN routing_protocol'[n].table
          /\ routing_protocol'[n].table[d] # table(n)[d]
                => /\ ReplacedByAdvertisement(n, d)
                   /\ Fresher(routing_protocol'[n].table[d], table(n)[d])
      ]_vars

\* C16, amended: the same for every entry but the node's own; the own entry
\* is (self, 0, counter) throughout and changes only by the node incrementing
\* its sequence counter.
C16_FreshnessRuleLearned ==
    [][\A n \in NodeIds : \A d \in DOMAIN table(n) :
          /\ d \in DOMAIN routing_protocol'[n].table
          /\ (d # n /\ routing_protocol'[n].table[d] # table(n)[d])
                => /\ ReplacedByAdvertisement(n, d)
                   /\ Fresher(routing_protocol'[n].table[d], table(n)[d])
          /\ d = n
                => /\ routing_protocol'[n].table[n].next_hop = n
                   /\ routing_protocol'[n].table[n].hops = 0
                   /\ routing_protocol'[n].table[n].sequence_number
                         \in {table(n)[n].sequence_number,
                              table(n)[n].sequence_number + 1}
      ]_vars

\* a node holds an entry for another node that is newer than the tuple for
\* it in an advertisement of the node's own still under way: the entry has
\* been replaced since that advertisement went out
C16_Witness ==
    \E n \in NodeIds : \E message \in advertisements :
        \E d \in DOMAIN message.entries \ {n} :
            /\ message.source = n
            /\ table(n)[d].sequence_number > message.entries[d].sequence_number

----------------------------------------------------------------------------
(* After the delivery: C17 *)

\* The two parties of TwoParty and a single frame of length 1
Single ==
    Case(<<Place(0, 0, 0), Place(100, 8, 0)>>, 12,
         <<PlannedTransmission(1, HighLevelMessage(100, "Hello message", 1), 0)>>)

InitQuiet == InitOf({Single}, MaxTimeQuiet, 1..MaxFirstDraw)

\* the driver runs every tick up to its bound
SpecQuiet == InitQuiet /\ [][Next]_vars /\ WF_vars(Next)

SingleFrame == Message(100, 0, 1, "Hello message", 1)

\* the frame was handed to receive_packet at its target and its ack to
\* receive_packet at its sender
DeliveredAndAcked ==
    /\ \E i \in 1..Len(received_log) :
           received_log[i].node = 100 /\ received_log[i].message = SingleFrame
    /\ \E i \in 1..Len(received_log) :
           received_log[i].node = 0 /\ received_log[i].message = get_ack(SingleFrame)

\* every buffer is empty: send_packet hands out nothing any more
Quiet == \A n \in NodeIds : node[n].protocol.buffer = <<>>

\* this step hands an ack addressed to n to n's receive_packet and n's buffer
\* is longer afterwards: the ack is itself acknowledged
AckAcknowledged(n) ==
    \E m \in ProcessedNow :
        /\ Processes(n, m)
        /\ m.content = "ack"
        /\ m.target = n
        /\ Len(node'[n].protocol.buffer) > Len(node[n].protocol.buffer)

\* the ack of transmission tr was handed to its target's receive_packet before
\* tr began: tr is a retransmission of an ack that had arrived
Reacknowledges(tr) ==
    /\ tr.message.content = "ack"
    /\ \E i \in 1..Len(received_log) :
           /\ received_log[i].node = tr.message.target
           /\ received_log[i].message = tr.message
           /\ received_log[i].time < tr.actual_transmit_time

\* C17: once the frame is delivered and its ack processed by the sender, the
\* network reaches a state from which on every buffer is empty (and so no
\* transmission is started any more); no ack is itself acknowledged, and no
\* ack is transmitted again after it has arrived.
C17_Quiescence ==
    /\ [](DeliveredAndAcked => <>[]Quiet)
    /\ [][\A n \in NodeIds : ~AckAcknowledged(n)]_vars
    /\ [](\A i \in 1..Len(active_transmissions) :
              ~Reacknowledges(active_transmissions[i]))

----------------------------------------------------------------------------
(* C18 *)

\* the data frames in the buffer of p that p's node created
OwnData(p) == {f \in Frames(p.buffer) : f.source = p.id /\ f.content # "ack"}

\* the frame f has been handed to receive_packet at its target
Delivered(f) ==
    \E i \in 1..Len(received_log) :
        received_log[i].node = f.target /\ received_log[i].message = f

\* C18: a data frame leaves its sender's buffer only when that frame has
\* been handed to receive_packet at its target.
C18_NoFalseSuccess ==
    [][\A n \in NodeIds :
          \A f \in OwnData(node[n].protocol) \ OwnData(node'[n].protocol) :
              Delivered(f)]_vars

----------------------------------------------------------------------------
(* C19 *)

\* node R's receive_packet was handed `message` in R's step of tick `time`
ReceivedOn(R, time, message) ==
    \E i \in 1..Len(received_log) :
        received_log[i] = [node |-> R, time |-> time, message |-> message]

\* the transmission tr of a neighbour begins to arrive at R at tick T and no
\* other neighbour transmission is audible at R in tr's window [T, T + length)
ClearWindow(R, tr) ==
    LET T == arrival_time(node[R], tr)
    IN  /\ Contains(node[R].neighbors, tr.source)
        /\ tr.message.length >= 1
        /\ Len(SelectSeq(LedgerAt(R, T), LAMBDA x : x = tr)) = 1
        /\ OnlyHeard(R, tr, T, T + tr.message.length - 1)

\* C19: a frame that began to arrive while R was Idle and whose window
\* overlapped no other transmission is handed to receive_packet at the tick
\* its window ends, also when a second frame begins to arrive at that tick;
\* the second frame, its window clear as well, is handed to receive_packet
\* at lb2 + length2.
C19_BackToBack ==
    \A R \in NodeIds :
        \A i \in 1..Len(active_transmissions) :
            LET first == active_transmissions[i]
                lb1 == arrival_time(node[R], first)
                done == lb1 + first.message.length
            IN  (/\ ClearWindow(R, first)
                 /\ HasStepped(R, done)
                 /\ StateBefore(R, lb1) = Idle)
                => /\ ReceivedOn(R, done, first.message)
                   /\ \A j \in 1..Len(active_transmissions) :
                          LET second == active_transmissions[j]
                              over == done + second.message.length
                          IN  (/\ j # i
                               /\ arrival_time(node[R], second) = done
                               /\ ClearWindow(R, second)
                               /\ HasStepped(R, over))
                              => ReceivedOn(R, over, second.message)

----------------------------------------------------------------------------
(* C20 *)

\* tick u lies in the arrival window of transmission tr at node R
InWindow(R, tr, u) ==
    /\ arrival_time(node[R], tr) <= u
    /\ u < arrival_time(node[R], tr) + tr.message.length

\* some tick of tr's arrival window at R lies in the arrival window of another
\* transmission of one of R's neighbours
Overlapped(R, tr) ==
    \E j \in 1..Len(active_transmissions) :
        LET other == active_transmissions[j]
        IN  /\ other # tr
            /\ Contains(node[R].neighbors, other.source)
            /\ \E u \in arrival_time(node[R], tr)
                           ..(arrival_time(node[R], tr) + tr.message.length - 1) :
                   InWindow(R, other, u)

\* C20: no frame is handed to receive_packet at R whose arrival window at R
\* shared a tick with the arrival window of another transmission of one of
\* R's neighbours.
C20_NoCollidedDelivery ==
    \A i \in 1..Len(received_log) :
        \A j \in 1..Len(active_transmissions) :
            LET R == received_log[i].node
                tr == active_transmissions[j]
            IN  (/\ tr.message = received_log[i].message
                 /\ Contains(node[R].neighbors, tr.source)
                 /\ arrival_time(node[R], tr) < received_log[i].time
                 /\ received_log[i].time
                       <= arrival_time(node[R], tr) + tr.message.length)
                => ~Overlapped(R, tr)

====
